---- MODULE Spec2Model ----
(***************************************************************************)
(* Model of the record vault of src/app.js: the menu loop (main), its      *)
(* nine handlers, the record collection they share, and the two kinds of   *)
(* file the handlers write (export.txt and backups/backup_<stamp>.json).   *)
(*                                                                         *)
(* A handler is cut into steps at its awaits.  One step is everything the  *)
(* handler does from one awaited store query to the next; `pc` is the      *)
(* await the session is parked at.  A string the operator types is a       *)
(* sequence of one-character strings, so that trim() and toLowerCase()     *)
(* are computed and not assumed.                                           *)
(*                                                                         *)
(* Time is the clock Date reads, in milliseconds.  An awaited store write   *)
(* (create, save, findByIdAndDelete) takes one millisecond, a read may     *)
(* return within the millisecond it was sent in, and at the menu prompt    *)
(* the operator either answers at once or lets a second pass.  The backup  *)
(* file name and formatDate keep the whole seconds of the clock.           *)
(***************************************************************************)
EXTENDS Integers, Sequences, FiniteSets, TLC

\* ------------------------------------------------------------------ bounds
\* The length of a run: the store writes awaited plus the seconds waited.
MaxSteps == 3
\* Milliseconds in a second: the part of an ISO date that split('.')[0] drops.
TicksPerSec == 1000

\* ----------------------------------------------------------------- strings
\* String.prototype.trim's white space, within the model's alphabet.
IsSpace(c) == c = " "

RECURSIVE TrimStart(_)
TrimStart(s) ==
    IF s = <<>> THEN <<>>
    ELSE IF IsSpace(Head(s)) THEN TrimStart(Tail(s))
    ELSE s

RECURSIVE TrimEnd(_)
TrimEnd(s) ==
    IF s = <<>> THEN <<>>
    ELSE IF IsSpace(s[Len(s)]) THEN TrimEnd(SubSeq(s, 1, Len(s) - 1))
    ELSE s

\* Mutant: the input is used as typed.
Trim_untrimmed(s) == s

\* String.prototype.trim
Trim(s) == TrimEnd(TrimStart(s))

LowerChar(c) ==
    CASE c = "A" -> "a"
      [] c = "B" -> "b"
      [] c = "Y" -> "y"
      [] c = "N" -> "n"
      [] OTHER -> c

\* String.prototype.toLowerCase
ToLowerCase(s) == [i \in 1..Len(s) |-> LowerChar(s[i])]

\* What the operator may type at a free-text prompt.
TextInputs ==
    { <<>>, <<" ", " ">>, <<"a">>, <<" ", "b", " ">>, <<"a", "b">> }

\* The same without the two-letter names.
ShortInputs == TextInputs \ { <<"a", "b">> }

\* What the operator may type at the details prompt.
DetailInputs == { <<>>, <<" ">>, <<"d", " ">> }

\* What the operator may type at the (y/N) prompt.
ConfirmInputs == { <<>>, <<"y">>, <<" ", "Y">>, <<"n">>, <<"y", "y">> }

\* What the operator may type at a search prompt.
SearchInputs == { <<>>, <<" ">>, <<"A">>, <<"b">> }

\* What the operator may type at a numbered sub-menu.
ChoiceInputs == { "1", "2", "x" }

\* What the operator may type at an id prompt, trimmed: -1 is the empty string,
\* 0 a string that is no object id, i > 0 the text of object id i (assigned or
\* not).
IdInputs == -1..MaxSteps

\* mongoose.isValidObjectId
isValidObjectId(id) == id > 0

\* ------------------------------------------------------------------- files
EXPORT_FILE_PATH == <<"export.txt", 0>>

\* new Date().toISOString().replace(/[:T]/g, '-').split('.')[0]: the clock cut
\* to whole seconds.
BackupStamp(t) == t \div TicksPerSec

\* path.join(BACKUPS_DIR, `backup_${timestamp}.json`)
BackupPath(t) == <<"backups", BackupStamp(t)>>

IsBackupPath(p) == p[1] = "backups"

\* The run has not reached its length at time t.
CanAwait(t) == (t \div TicksPerSec) + (t % TicksPerSec) < MaxSteps

\* Mutant: a file that exists is left as it is.
writeFile_exclusive(fs, path, content) ==
    [p \in DOMAIN fs \cup {path} |-> IF p \in DOMAIN fs THEN fs[p] ELSE content]

\* fs.promises.writeFile(path, content): creates the file or replaces its content.
writeFile(fs, path, content) ==
    [p \in DOMAIN fs \cup {path} |-> IF p = path THEN content ELSE fs[p]]

BackupFiles(fs) == {p \in DOMAIN fs : IsBackupPath(p)}

VARIABLES
    store,      \* the Record collection: a set of documents
    nextId,     \* the next object id the driver generates
    now,        \* the clock
    files,      \* the file system below __dirname: path -> content
    pc,         \* the await the session is parked at ("menu": the menu prompt)
    loc,        \* the running handler's local variables
    out,        \* what the handler that ran last has printed
    hist        \* history: ids in the order added, ids deleted, store states
                \* that existed during the running handler

vars == <<store, nextId, now, files, pc, loc, out, hist>>


\* ---------------------------------------------------------------- documents
\* recordSchema with { timestamps: true }: what Record.create stores.
NewDoc(id, name, details, t) ==
    [id |-> id, name |-> Trim(name), details |-> Trim(details),
     createdAt |-> t, updatedAt |-> t]

Ids(S) == {d.id : d \in S}

\* Mutant: the smallest id that no stored document has.
NewId_reused(S, n) == CHOOSE i \in 1..n : i \notin Ids(S) /\ \A j \in 1..(i - 1) : j \in Ids(S)

\* The _id Record.create gives a new document: the driver's next object id,
\* which no document ever had.
NewId(S, n) == n

DocOf(S, id) == CHOOSE d \in S : d.id = id

\* Record.findById(id): <<doc>>, or <<>> for null.
findById(S, id) == IF id \in Ids(S) THEN <<DocOf(S, id)>> ELSE <<>>

\* Binary order of the characters of the alphabet.
CharRank(c) ==
    CASE c = " " -> 0
      [] c = "A" -> 1
      [] c = "B" -> 2
      [] c = "a" -> 3
      [] c = "b" -> 4
      [] OTHER -> 5

\* s <= t in the store's string order.
RECURSIVE StrLeq(_, _)
StrLeq(s, t) ==
    IF s = <<>> THEN TRUE
    ELSE IF t = <<>> THEN FALSE
    ELSE IF Head(s) = Head(t) THEN StrLeq(Tail(s), Tail(t))
    ELSE CharRank(Head(s)) < CharRank(Head(t))

\* Every enumeration of the set S as a sequence without repetition.
Enumerations(S) ==
    {q \in [1..Cardinality(S) -> S] : \A i, j \in DOMAIN q : i # j => q[i] # q[j]}

KeyLeq(field, a, b) ==
    CASE field = "name" -> StrLeq(a.name, b.name)
      [] field = "createdAt" -> a.createdAt <= b.createdAt
      [] field = "updatedAt" -> a.updatedAt <= b.updatedAt

\* Mutant: the query without its sort.
findSorted_unsorted(S, field, order) == Enumerations(S)

\* Record.find().sort({ [field]: order }): the results the store may return.
\* Documents that are equal on the sort key come in any order.
findSorted(S, field, order) ==
    {q \in Enumerations(S) :
        \A i, j \in DOMAIN q :
            i < j => IF order = 1 THEN KeyLeq(field, q[i], q[j])
                                  ELSE KeyLeq(field, q[j], q[i])}

\* ------------------------------------------------------------------ display
NA == <<"N", "/", "A">>

\* formatDate: toLocaleString shows a date to the second.
formatDate(t) == t \div TicksPerSec

\* One block of displayRecords: the fields as printed.
DisplayRecord(d) ==
    [id |-> d.id, name |-> d.name,
     details |-> IF d.details = <<>> THEN NA ELSE d.details,
     created |-> formatDate(d.createdAt), updated |-> formatDate(d.updatedAt)]

displayRecords(records) == [i \in DOMAIN records |-> DisplayRecord(records[i])]



\* ------------------------------------------------------------------ session
NoArgs == [id |-> 0, text |-> <<>>, text2 |-> <<>>]

NoLoc == [id |-> 0, doc |-> <<>>, total |-> 0,
          lastModified |-> <<>>, earliest |-> <<>>, latest |-> <<>>]

NoHist == [added |-> <<>>, deleted |-> {}, seen |-> {}, ext |-> 0]

\* What a handler has printed: the handler, how it ended ("running" while it is
\* parked at an await), what the operator typed, the record blocks shown, the
\* file it names and the statistics lines.
Printed(op, status, args, shown) ==
    [op |-> op, status |-> status, args |-> args, shown |-> shown,
     file |-> <<>>, stats |-> <<>>]

Nothing == Printed("none", "ok", NoArgs, <<>>)

\* main, lines 297-298: connected, backups directory present, nothing stored.
Init ==
    /\ store = {}
    /\ nextId = 1
    /\ now = 0
    /\ files = [p \in {} |-> <<>>]
    /\ pc = "menu"
    /\ loc = NoLoc
    /\ out = Nothing
    /\ hist = NoHist

\* The operator lets a second pass before answering the menu.
Tick ==
    /\ pc = "menu"
    /\ CanAwait(now)
    /\ now' = now + TicksPerSec
    /\ UNCHANGED <<store, nextId, files, pc, loc, out, hist>>

\* main, lines 304-307: a key that is no menu option; the loop continues.
invalidSelection ==
    /\ pc = "menu"
    /\ out' = Printed("menu", "invalid_selection", NoArgs, <<>>)
    /\ UNCHANGED <<store, nextId, now, files, pc, loc, hist>>

\* main, line 315: the handler has returned or thrown; Enter brings the menu back.
returnToMenu ==
    /\ pc = "enter"
    /\ pc' = "menu"
    /\ out' = Nothing
    /\ loc' = NoLoc
    /\ hist' = [hist EXCEPT !.seen = {}]
    /\ UNCHANGED <<store, nextId, now, files>>

\* exitApp: the process ends.
exitApp ==
    /\ pc = "menu"
    /\ pc' = "exited"
    /\ out' = Printed("exit", "ok", NoArgs, <<>>)
    /\ UNCHANGED <<store, nextId, now, files, loc, hist>>

\* addRecord up to and including `await Record.create`, and the block it prints.
addRecord(nameIn, detailsIn) ==
    /\ pc = "menu"
    /\ LET name == Trim(nameIn) IN
       IF name = <<>>
       THEN /\ out' = Printed("add", "name_required",
                              [NoArgs EXCEPT !.text = nameIn], <<>>)
            /\ pc' = "enter"
            /\ UNCHANGED <<store, nextId, now, files, loc, hist>>
       ELSE LET details == Trim(detailsIn)
                newRecord == NewDoc(NewId(store, nextId), name, details, now)
            IN  /\ CanAwait(now)
                /\ store' = store \cup {newRecord}
                /\ nextId' = nextId + 1
                /\ now' = now + 1
                /\ pc' = "add_backup"
                /\ loc' = [NoLoc EXCEPT !.id = newRecord.id]
                /\ out' = Printed("add", "running",
                                  [NoArgs EXCEPT !.text = nameIn, !.text2 = detailsIn],
                                  displayRecords(<<newRecord>>))
                /\ hist' = [hist EXCEPT !.added = Append(@, newRecord.id)]
                /\ UNCHANGED files

\* Mutant: the error is swallowed.
Thrown_swallowed(o) == [o EXCEPT !.status = "ok"]

\* main, lines 311-313: what a handler printed, and then the error it threw.
Thrown(o) == [o EXCEPT !.status = "error"]

\* createBackup, awaited last by addRecord and deleteRecord; a write that fails
\* throws into main's catch.
createBackup(writeOk) ==
    /\ pc \in {"add_backup", "delete_backup"}
    /\ now' = now
    /\ \E records \in findSorted(store, "createdAt", 1) :
         LET filePath == BackupPath(now) IN
         IF writeOk
         THEN /\ files' = writeFile(files, filePath, records)
              /\ out' = [out EXCEPT !.status = "ok", !.file = filePath]
         ELSE /\ files' = files
              /\ out' = Thrown(out)
    /\ pc' = "enter"
    /\ UNCHANGED <<store, nextId, loc, hist>>

\* updateRecord up to and including `await Record.findById`.
updateRecord(idIn) ==
    /\ pc = "menu"
    /\ IF ~isValidObjectId(idIn)
       THEN /\ out' = Printed("update", "invalid_id", [NoArgs EXCEPT !.id = idIn], <<>>)
            /\ pc' = "enter"
            /\ UNCHANGED <<store, nextId, now, files, loc, hist>>
       ELSE LET record == findById(store, idIn) IN
            /\ now' = now
            /\ IF record = <<>>
               THEN /\ out' = Printed("update", "not_found",
                                      [NoArgs EXCEPT !.id = idIn], <<>>)
                    /\ pc' = "enter"
                    /\ loc' = loc
               ELSE /\ out' = Printed("update", "running",
                                      [NoArgs EXCEPT !.id = idIn], <<>>)
                    /\ pc' = "update_prompt"
                    /\ loc' = [NoLoc EXCEPT !.id = idIn, !.doc = record]
            /\ UNCHANGED <<store, nextId, files, hist>>

\* The paths of the fetched document that the two prompts have changed.
ModifiedPaths(doc, name, details) ==
    {f \in {"name"} : name # <<>> /\ name # doc.name}
        \cup {f \in {"details"} : details # <<>> /\ details # doc.details}

\* The fetched document after `if (name) record.name = name` and the same for
\* details, with the updatedAt that save() stamps on a modified document.
Edited(doc, name, details, t) ==
    [doc EXCEPT !.name = IF name # <<>> THEN name ELSE @,
                !.details = IF details # <<>> THEN details ELSE @,
                !.updatedAt = IF ModifiedPaths(doc, name, details) # {} THEN t ELSE @]

\* Mutant: the stored document is stamped afresh, createdAt included.
Saved_restamped(cur, edited, paths) ==
    [cur EXCEPT !.name = IF "name" \in paths THEN edited.name ELSE @,
                !.details = IF "details" \in paths THEN edited.details ELSE @,
                !.createdAt = edited.updatedAt,
                !.updatedAt = edited.updatedAt]

\* What save() sends: $set of the modified paths and of updatedAt, on the stored
\* document of that id.
Saved(cur, edited, paths) ==
    [cur EXCEPT !.name = IF "name" \in paths THEN edited.name ELSE @,
                !.details = IF "details" \in paths THEN edited.details ELSE @,
                !.updatedAt = edited.updatedAt]

\* updateRecord from its two prompts to its end: `await record.save()`.
updateRecord_save(nameIn, detailsIn) ==
    /\ pc = "update_prompt"
    /\ LET record == loc.doc[1]
           name == Trim(nameIn)
           details == Trim(detailsIn)
           paths == ModifiedPaths(record, name, details)
           edited == Edited(record, name, details, now)
           args == [out.args EXCEPT !.text = nameIn, !.text2 = detailsIn]
       IN
       IF paths = {}
       THEN \* nothing modified: save() sends nothing
            /\ out' = [out EXCEPT !.status = "ok", !.args = args,
                                  !.shown = displayRecords(<<edited>>)]
            /\ UNCHANGED <<store, now>>
       ELSE /\ CanAwait(now)
            /\ now' = now + 1
            /\ IF record.id \in Ids(store)
               THEN /\ store' = (store \ {DocOf(store, record.id)})
                                   \cup {Saved(DocOf(store, record.id), edited, paths)}
                    /\ out' = [out EXCEPT !.status = "ok", !.args = args,
                                          !.shown = displayRecords(<<edited>>)]
               ELSE \* the document is gone: save() throws into main's catch
                    /\ store' = store
                    /\ out' = Thrown([out EXCEPT !.args = args])
    /\ pc' = "enter"
    /\ UNCHANGED <<nextId, files, loc, hist>>

\* Mutant: anything but "n" confirms.
Confirmed_unlessNo(confirmIn) == ToLowerCase(Trim(confirmIn)) # <<"n">>

\* deleteRecord, lines 128-129: the answer to (y/N) confirms.
Confirmed(confirmIn) == ToLowerCase(Trim(confirmIn)) = <<"y">>

\* deleteRecord up to and including `await Record.findByIdAndDelete`.
deleteRecord(idIn, confirmIn) ==
    /\ pc = "menu"
    /\ LET args == [NoArgs EXCEPT !.id = idIn, !.text = confirmIn]
           deletedRecord == findById(store, idIn)
       IN
       IF ~isValidObjectId(idIn)
       THEN /\ out' = Printed("delete", "invalid_id", [NoArgs EXCEPT !.id = idIn], <<>>)
            /\ pc' = "enter"
            /\ UNCHANGED <<store, nextId, now, files, loc, hist>>
       ELSE IF ~Confirmed(confirmIn)
       THEN /\ out' = Printed("delete", "cancelled", args, <<>>)
            /\ pc' = "enter"
            /\ UNCHANGED <<store, nextId, now, files, loc, hist>>
       ELSE /\ CanAwait(now)
            /\ now' = now + 1
            /\ IF deletedRecord = <<>>
               THEN /\ out' = Printed("delete", "not_found", args, <<>>)
                    /\ pc' = "enter"
                    /\ UNCHANGED <<store, loc, hist>>
               ELSE /\ store' = store \ {deletedRecord[1]}
                    /\ out' = Printed("delete", "running", args, <<>>)
                    /\ pc' = "delete_backup"
                    /\ loc' = [NoLoc EXCEPT !.id = idIn]
                    /\ hist' = [hist EXCEPT !.deleted = @ \cup {idIn}]
            /\ UNCHANGED <<nextId, files>>

\* listRecords
listRecords ==
    /\ pc = "menu"
    /\ now' = now
    /\ \E records \in findSorted(store, "createdAt", 1) :
         out' = IF Len(records) = 0
                THEN Printed("list", "empty", NoArgs, <<>>)
                ELSE Printed("list", "ok", NoArgs, displayRecords(records))
    /\ pc' = "enter"
    /\ UNCHANGED <<store, nextId, files, loc, hist>>

\* sub occurs in s as a contiguous run.
Contains(s, sub) ==
    \E i \in 1..(Len(s) - Len(sub) + 1) : SubSeq(s, i, i + Len(sub) - 1) = sub

\* { name: { $regex: name, $options: 'i' } } for a term of plain letters.
MatchesName(d, term) == Contains(ToLowerCase(d.name), ToLowerCase(term))

\* searchRecords
searchRecords(choice, termIn, idIn) ==
    /\ pc = "menu"
    /\ pc' = "enter"
    /\ UNCHANGED <<store, nextId, files, loc, hist>>
    /\ LET name == Trim(termIn)
           nameArgs == [NoArgs EXCEPT !.text = name]
           idArgs == [NoArgs EXCEPT !.id = idIn]
           Found(args, records) ==
               IF Len(records) = 0
               THEN Printed("search", "empty", args, <<>>)
               ELSE Printed("search", "ok", args, displayRecords(records))
       IN
       IF choice = "1"
       THEN IF name = <<>>
            THEN /\ out' = Printed("search", "term_required", NoArgs, <<>>)
                 /\ now' = now
            ELSE /\ now' = now
                 /\ \E records \in findSorted({d \in store : MatchesName(d, name)},
                                               "createdAt", 1) :
                      out' = Found(nameArgs, records)
       ELSE IF choice = "2"
       THEN IF idIn = -1
            THEN /\ out' = Printed("search", "id_required", NoArgs, <<>>)
                 /\ now' = now
            ELSE IF isValidObjectId(idIn)
            THEN /\ now' = now
                 /\ out' = Found(idArgs, findById(store, idIn))
            ELSE /\ out' = Printed("search", "invalid_id", idArgs, <<>>)
                 /\ now' = now
       ELSE /\ out' = Printed("search", "invalid_choice", NoArgs, <<>>)
            /\ now' = now

\* sortRecords
sortRecords(fieldChoice, orderChoice) ==
    /\ pc = "menu"
    /\ pc' = "enter"
    /\ UNCHANGED <<store, nextId, files, loc, hist>>
    /\ IF fieldChoice \notin {"1", "2"} \/ orderChoice \notin {"1", "2"}
       THEN /\ out' = Printed("sort", "invalid_selection", NoArgs, <<>>)
            /\ now' = now
       ELSE LET sortField == IF fieldChoice = "1" THEN "name" ELSE "createdAt"
                sortOrder == IF orderChoice = "1" THEN 1 ELSE -1
                args == [NoArgs EXCEPT !.text = <<fieldChoice>>, !.text2 = <<orderChoice>>]
            IN  /\ now' = now
                /\ \E records \in findSorted(store, sortField, sortOrder) :
                     out' = IF Len(records) = 0
                            THEN Printed("sort", "empty", args, <<>>)
                            ELSE Printed("sort", "ok", args, displayRecords(records))

\* The text exportData builds: the header lines and one numbered block a record.
ExportText(records, t) ==
    [timestamp |-> formatDate(t),
     total |-> Len(records),
     file |-> EXPORT_FILE_PATH[1],
     lines |-> [i \in DOMAIN records |->
                  [n |-> i, block |-> DisplayRecord(records[i])]]]

\* exportData; a write that fails throws into main's catch.
exportData(writeOk) ==
    /\ pc = "menu"
    /\ now' = now
    /\ \E records \in findSorted(store, "createdAt", 1) :
         IF writeOk
         THEN /\ files' = writeFile(files, EXPORT_FILE_PATH, ExportText(records, now))
              /\ out' = [Printed("export", "ok", NoArgs, <<>>)
                            EXCEPT !.file = EXPORT_FILE_PATH]
         ELSE /\ files' = files
              /\ out' = Thrown(Printed("export", "running", NoArgs, <<>>))
    /\ pc' = "enter"
    /\ UNCHANGED <<store, nextId, loc, hist>>

\* Record.findOne().sort({ [field]: order }): <<doc>>, or <<>> for null.
findOne(S, field, order) ==
    {IF Len(q) = 0 THEN <<>> ELSE <<q[1]>> : q \in findSorted(S, field, order)}

\* The aggregate of lines 267-277: $project the code-point length of name,
\* $sort by it descending, $limit 1.  Documents of equal length come in any
\* order, so any document of the greatest length may be the one returned.
longestNameResult(S) ==
    IF S = {} THEN {<<>>}
    ELSE {<<[name |-> d.name, createdAt |-> d.createdAt, length |-> Len(d.name)]>> :
            d \in {e \in S : \A f \in S : Len(f.name) <= Len(e.name)}}

\* viewVaultStatistics, line 262: `await Record.countDocuments()`.
viewVaultStatistics ==
    /\ pc = "menu"
    /\ now' = now
    /\ loc' = [NoLoc EXCEPT !.total = Cardinality(store)]
    /\ pc' = "stats_lastModified"
    /\ out' = Printed("stats", "running", NoArgs, <<>>)
    /\ hist' = [hist EXCEPT !.seen = {store}]
    /\ UNCHANGED <<store, nextId, files>>

\* viewVaultStatistics, line 263: the most recently updated record.
viewVaultStatistics_lastModified ==
    /\ pc = "stats_lastModified"
    /\ now' = now
    /\ \E r \in findOne(store, "updatedAt", -1) : loc' = [loc EXCEPT !.lastModified = r]
    /\ pc' = "stats_earliest"
    /\ UNCHANGED <<store, nextId, files, out, hist>>

\* viewVaultStatistics, line 264: the record created first.
viewVaultStatistics_earliest ==
    /\ pc = "stats_earliest"
    /\ now' = now
    /\ \E r \in findOne(store, "createdAt", 1) : loc' = [loc EXCEPT !.earliest = r]
    /\ pc' = "stats_latest"
    /\ UNCHANGED <<store, nextId, files, out, hist>>

\* viewVaultStatistics, line 265: the record created last.
viewVaultStatistics_latest ==
    /\ pc = "stats_latest"
    /\ now' = now
    /\ \E r \in findOne(store, "createdAt", -1) : loc' = [loc EXCEPT !.latest = r]
    /\ pc' = "stats_longest"
    /\ UNCHANGED <<store, nextId, files, out, hist>>

\* The lines viewVaultStatistics prints (283-287) from what its queries returned.
StatsLines(total, lastModified, earliest, latest, longest) ==
    [total |-> total,
     lastModification |->
         IF lastModified # <<>> THEN <<formatDate(lastModified[1].updatedAt)>> ELSE NA,
     longestName |->
         IF longest # <<>> /\ longest[1].name # <<>> THEN longest[1].name ELSE NA,
     longestNameLength |->
         IF longest # <<>> /\ longest[1].length # 0 THEN longest[1].length ELSE 0,
     earliest |-> IF earliest # <<>> THEN <<formatDate(earliest[1].createdAt)>> ELSE NA,
     latest |-> IF latest # <<>> THEN <<formatDate(latest[1].createdAt)>> ELSE NA]

\* viewVaultStatistics from the aggregate of line 267 to its end.
viewVaultStatistics_longest ==
    /\ pc = "stats_longest"
    /\ now' = now
    /\ \E r \in longestNameResult(store) :
         out' = [out EXCEPT !.status = "ok",
                            !.stats = <<StatsLines(loc.total, loc.lastModified,
                                                   loc.earliest, loc.latest, r)>>]
    /\ pc' = "enter"
    /\ UNCHANGED <<store, nextId, files, loc, hist>>

\* ------------------------------------------------------- another client
\* The collection is shared: another client of the store may write to it at
\* any moment, between two awaits of a handler included.  The history counts
\* these writes (a run has at most MaxSteps of them) and, during
\* viewVaultStatistics, keeps every state the store went through.
Witnessed(S) ==
    [hist EXCEPT !.seen = IF @ = {} THEN @ ELSE @ \cup {S}, !.ext = @ + 1]

extCreate(nameIn) ==
    /\ pc # "exited"
    /\ hist.ext < MaxSteps
    /\ Trim(nameIn) # <<>>
    /\ store' = store \cup {NewDoc(NewId(store, nextId), nameIn, <<>>, now)}
    /\ nextId' = nextId + 1
    /\ hist' = Witnessed(store')
    /\ UNCHANGED <<now, files, pc, loc, out>>

extUpdate(id, nameIn) ==
    /\ pc # "exited"
    /\ hist.ext < MaxSteps
    /\ id \in Ids(store)
    /\ Trim(nameIn) # <<>>
    /\ store' = (store \ {DocOf(store, id)})
                    \cup {[DocOf(store, id) EXCEPT !.name = Trim(nameIn), !.updatedAt = now]}
    /\ hist' = Witnessed(store')
    /\ UNCHANGED <<nextId, now, files, pc, loc, out>>

extDelete(id) ==
    /\ pc # "exited"
    /\ hist.ext < MaxSteps
    /\ id \in Ids(store)
    /\ store' = store \ {DocOf(store, id)}
    /\ hist' = Witnessed(store')
    /\ UNCHANGED <<nextId, now, files, pc, loc, out>>

\* ------------------------------------------------------------ the session
\* main's loop: one menu choice, and the steps of the handler it starts.
Next ==
    \/ Tick
    \/ invalidSelection
    \/ returnToMenu
    \/ exitApp
    \/ \E nameIn \in TextInputs, detailsIn \in DetailInputs : addRecord(nameIn, detailsIn)
    \/ \E writeOk \in BOOLEAN : createBackup(writeOk)
    \/ \E idIn \in IdInputs : updateRecord(idIn)
    \/ \E nameIn \in TextInputs, detailsIn \in DetailInputs :
          updateRecord_save(nameIn, detailsIn)
    \/ \E idIn \in IdInputs, confirmIn \in ConfirmInputs : deleteRecord(idIn, confirmIn)
    \/ listRecords
    \/ \E choice \in ChoiceInputs, termIn \in SearchInputs, idIn \in IdInputs :
          searchRecords(choice, termIn, idIn)
    \/ \E fieldChoice \in ChoiceInputs, orderChoice \in ChoiceInputs :
          sortRecords(fieldChoice, orderChoice)
    \/ \E writeOk \in BOOLEAN : exportData(writeOk)
    \/ viewVaultStatistics
    \/ viewVaultStatistics_lastModified
    \/ viewVaultStatistics_earliest
    \/ viewVaultStatistics_latest
    \/ viewVaultStatistics_longest

Spec == Init /\ [][Next]_vars

\* The session of an operator who only adds, updates and deletes, with
\* one-letter names.
NextMutations ==
    \/ Tick
    \/ returnToMenu
    \/ exitApp
    \/ \E nameIn \in ShortInputs, detailsIn \in DetailInputs : addRecord(nameIn, detailsIn)
    \/ \E writeOk \in BOOLEAN : createBackup(writeOk)
    \/ \E idIn \in IdInputs : updateRecord(idIn)
    \/ \E nameIn \in ShortInputs, detailsIn \in DetailInputs :
          updateRecord_save(nameIn, detailsIn)
    \/ \E idIn \in IdInputs, confirmIn \in ConfirmInputs : deleteRecord(idIn, confirmIn)

SpecMutations == Init /\ [][NextMutations]_vars

\* The session of an operator who does not ask for statistics, with one-letter
\* names and no details, on a disk that takes every write.
NextReads ==
    \/ Tick
    \/ returnToMenu
    \/ \E nameIn \in ShortInputs : addRecord(nameIn, <<>>)
    \/ createBackup(TRUE)
    \/ \E idIn \in IdInputs : updateRecord(idIn)
    \/ \E nameIn \in ShortInputs : updateRecord_save(nameIn, <<>>)
    \/ \E idIn \in IdInputs, confirmIn \in ConfirmInputs : deleteRecord(idIn, confirmIn)
    \/ listRecords
    \/ \E choice \in ChoiceInputs, termIn \in SearchInputs, idIn \in IdInputs :
          searchRecords(choice, termIn, idIn)
    \/ \E fieldChoice \in ChoiceInputs, orderChoice \in ChoiceInputs :
          sortRecords(fieldChoice, orderChoice)
    \/ \E writeOk \in BOOLEAN : exportData(writeOk)

SpecReads == Init /\ [][NextReads]_vars

\* The session of an operator who only asks for statistics, while another
\* client writes to the collection.
NextShared ==
    \/ Tick
    \/ returnToMenu
    \/ viewVaultStatistics
    \/ viewVaultStatistics_lastModified
    \/ viewVaultStatistics_earliest
    \/ viewVaultStatistics_latest
    \/ viewVaultStatistics_longest
    \/ \E nameIn \in ShortInputs : extCreate(nameIn)
    \/ \E id \in Ids(store), nameIn \in ShortInputs : extUpdate(id, nameIn)
    \/ \E id \in Ids(store) : extDelete(id)

SpecShared == Init /\ [][NextShared]_vars

\* -------------------------------------------------------------- properties
\* s has a character that is not white space.
HasText(s) == \E i \in DOMAIN s : s[i] # " "

\* s without the white space around it.
Stripped(s) ==
    IF ~HasText(s) THEN <<>>
    ELSE LET I == {i \in DOMAIN s : s[i] # " "}
             lo == CHOOSE i \in I : \A j \in I : i <= j
             hi == CHOOSE i \in I : \A j \in I : j <= i
         IN  SubSeq(s, lo, hi)

\* The answers to (y/N) that confirm a delete.
SaysYes(s) == Stripped(s) \in {<<"y">>, <<"Y">>}

\* The sequence q lists the documents of S, each once.
Lists(q, S) == Len(q) = Cardinality(S) /\ {q[i] : i \in DOMAIN q} = S

\* The ids of hist.added that are in S, in the order added.
AddedIn(S) == SelectSeq(hist.added, LAMBDA id : id \in Ids(S))

IdsOfBlocks(shown) == [i \in DOMAIN shown |-> shown[i].id]
IdsOfBackup(content) == [i \in DOMAIN content |-> content[i].id]
IdsOfExport(content) == [i \in DOMAIN content.lines |-> content.lines[i].block.id]

\* The ids a file lists, in its order.
IdsOfFile(fs, p) == IF IsBackupPath(p) THEN IdsOfBackup(fs[p]) ELSE IdsOfExport(fs[p])

Range(q) == {q[i] : i \in DOMAIN q}

\* The files written by this step.
Written == {p \in DOMAIN files' : p \notin DOMAIN files \/ files'[p] # files[p]}

BackupPcs == {"add_backup", "delete_backup"}

\* C1: every Add and every Delete that succeeds leaves exactly one more backup
\* file than there was, holding the whole collection as it is after the
\* operation; no other step adds a backup file, and no step changes or removes
\* one that exists.
C1_BackupPerMutation ==
    [][ LET before == BackupFiles(files)
            after == BackupFiles(files')
        IN  /\ \A p \in before : p \in after /\ files'[p] = files[p]
            /\ IF pc \in BackupPcs /\ pc' = "enter" /\ out'.status = "ok"
               THEN /\ Cardinality(after) = Cardinality(before) + 1
                    /\ \E p \in after \ before : Lists(files'[p], store')
               ELSE after = before ]_vars

\* C2: every stored name has text and no white space around it; an Add whose
\* name is white space only stores nothing, and an Update whose new name is
\* white space only leaves the name as it was.
C2_NamesNonEmpty ==
    /\ [](\A d \in store : HasText(d.name) /\ Stripped(d.name) = d.name)
    /\ [][ /\ (pc = "menu" /\ out'.op = "add" /\ ~HasText(out'.args.text))
                => store' = store
           /\ (pc = "update_prompt" /\ pc' = "enter" /\ ~HasText(out'.args.text))
                => \A d \in store' :
                     d.id = loc.id => d.name = DocOf(store, loc.id).name ]_vars

\* C2 witness: an Update answered with white space for the name has run on a
\* stored record.
C2_Witness ==
    /\ out.op = "update" /\ out.status = "ok" /\ pc = "enter"
    /\ out.args.text # <<>> /\ ~HasText(out.args.text)
    /\ out.args.id \in Ids(store)

\* C3: an Update that succeeds sets name and details to the text typed for
\* them where text was typed and leaves them alone where not, keeps id and
\* createdAt, does not move updatedAt back, and touches no other record; and
\* createdAt <= updatedAt for every stored record, always.
C3_UpdateFrame ==
    /\ [](\A d \in store : d.createdAt <= d.updatedAt)
    /\ [][ (pc = "update_prompt" /\ pc' = "enter" /\ out'.status = "ok") =>
             /\ loc.id \in Ids(store) /\ loc.id \in Ids(store')
             /\ LET old == DocOf(store, loc.id)
                    new == DocOf(store', loc.id)
                    nameIn == out'.args.text
                    detailsIn == out'.args.text2
                IN  /\ new.name = IF HasText(nameIn) THEN Stripped(nameIn) ELSE old.name
                    /\ new.details =
                         IF HasText(detailsIn) THEN Stripped(detailsIn) ELSE old.details
                    /\ new.createdAt = old.createdAt
                    /\ new.updatedAt >= old.updatedAt
                    /\ store' \ {new} = store \ {old}
                    /\ Cardinality(store') = Cardinality(store) ]_vars

\* C3 witness: an Update that changed the name only has run, later than the
\* record was created, with another record stored.
C3_Witness ==
    /\ out.op = "update" /\ out.status = "ok" /\ pc = "enter"
    /\ HasText(out.args.text) /\ ~HasText(out.args.text2)
    /\ Cardinality(store) = 2
    /\ \E d \in store :
         /\ d.id = out.args.id
         /\ d.name = Stripped(out.args.text)
         /\ d.updatedAt > d.createdAt

\* C4: a deleted id is never stored again; nothing a handler shows and no file
\* written from then on holds it; an Update or a confirmed Delete of it ends
\* not found; and an Add stores an id that was never given before.
C4_DeletedIsGone ==
    /\ [](/\ hist.deleted \cap Ids(store) = {}
          /\ hist.deleted \cap Range(IdsOfBlocks(out.shown)) = {})
    /\ [][ /\ \A p \in Written : hist'.deleted \cap Range(IdsOfFile(files', p)) = {}
           /\ \A id \in Ids(store') \ Ids(store) : id \notin Range(hist.added)
           /\ (pc = "menu" /\ out'.op = "update" /\ out'.args.id \in hist.deleted)
                => out'.status = "not_found" /\ pc' = "enter"
           /\ (pc = "menu" /\ out'.op = "delete" /\ out'.args.id \in hist.deleted)
                => /\ out'.status = IF SaysYes(out'.args.text)
                                    THEN "not_found" ELSE "cancelled"
                   /\ pc' = "enter" ]_vars

\* C4 witness: after a Delete and a later Add, an Update of the deleted id has
\* ended not found.
C4_Witness ==
    /\ out.op = "update" /\ out.status = "not_found"
    /\ out.args.id \in hist.deleted
    /\ store # {}
    /\ Len(hist.added) > Cardinality(hist.deleted) + Cardinality(store) - 1
    /\ \E d \in store : \A id \in hist.deleted : d.id > id

\* C5: an Add whose name is white space only, an Update or a Delete of a
\* string that is no id or of an id that is not stored, and a Delete that is
\* not confirmed, return at once and leave the records and the files as they
\* were.
C5_FailureChangesNothing ==
    [][ LET o == out'
            failed ==
              \/ o.op = "add" /\ ~HasText(o.args.text)
              \/ o.op \in {"update", "delete"} /\ o.args.id \notin Ids(store)
              \/ o.op = "delete" /\ ~SaysYes(o.args.text)
        IN  (pc = "menu" /\ o.op \in {"add", "update", "delete"} /\ failed)
              => /\ store' = store
                 /\ files' = files
                 /\ pc' = "enter"
                 /\ o.status \in {"name_required", "invalid_id", "not_found", "cancelled"}
      ]_vars

\* C5 witness: a Delete of a stored record was answered with something other
\* than yes, with a backup on disk.
C5_Witness ==
    /\ out.op = "delete" /\ out.status = "cancelled"
    /\ out.args.id \in Ids(store)
    /\ out.args.text # <<>>
    /\ BackupFiles(files) # {}

\* In an Add or Delete parked at createBackup, the record is stored or gone.
Committed(S) == IF pc = "add_backup" THEN loc.id \in Ids(S) ELSE loc.id \notin Ids(S)

\* C6: an Add or Delete changes the store first and is then parked at
\* createBackup, not yet returned; backup files are written there only; it
\* returns from there only, with the file written or with the error reported,
\* and in both cases with the store as the mutation left it; and the process
\* ends by the Exit option only.
C6_MutationThenBackup ==
    /\ [](/\ pc \in BackupPcs => out.status = "running" /\ Committed(store)
          /\ pc = "exited" => out.op = "exit")
    /\ [][ /\ (pc = "menu" /\ store' # store)
                => pc' \in BackupPcs /\ files' = files /\ out'.status = "running"
           /\ files' # files => pc \in BackupPcs
           /\ pc \in BackupPcs
                => /\ pc' = "enter"
                   /\ store' = store
                   /\ Committed(store')
                   /\ \/ /\ out'.status = "ok"
                         /\ out'.file \in BackupFiles(files')
                         /\ Lists(files'[out'.file], store')
                      \/ out'.status = "error"
           /\ pc' = "exited" => pc = "menu" ]_vars

\* C6 witness: a Delete has removed the last record, its backup write has
\* failed, and the session is at the prompt that leads back to the menu.
C6_Witness ==
    /\ pc = "enter" /\ out.op = "delete" /\ out.status = "error"
    /\ hist.deleted # {} /\ store = {}
    /\ BackupFiles(files) # {}

\* C7: while nothing has been deleted, a list shows the records in the order
\* they were added, and a backup or an export that is written lists them in
\* that order.
C7_InsertionOrder ==
    /\ [](hist.deleted = {} /\ out.op = "list" => IdsOfBlocks(out.shown) = hist.added)
    /\ [][ hist'.deleted = {} =>
             \A p \in Written : IdsOfFile(files', p) = hist'.added ]_vars

\* C7 witness: two records added, one of them updated since, none deleted, and
\* a list of both shown.
C7_Witness ==
    /\ hist.deleted = {} /\ Len(hist.added) = 2
    /\ out.op = "list" /\ Len(out.shown) = 2
    /\ \E d \in store : d.updatedAt > d.createdAt /\ d.id = 1

\* An export of the collection S: the count and one block a record, in the
\* order added, each with the record's own fields.
ExportOf(content, S) ==
    /\ content.total = Cardinality(S)
    /\ Len(content.lines) = Cardinality(S)
    /\ IdsOfExport(content) = AddedIn(S)
    /\ \A i \in DOMAIN content.lines :
         LET b == content.lines[i].block
             d == DocOf(S, b.id)
         IN  /\ content.lines[i].n = i
             /\ b.name = d.name
             /\ b.details = (IF d.details = <<>> THEN NA ELSE d.details)
             /\ b.created = d.createdAt \div TicksPerSec
             /\ b.updated = d.updatedAt \div TicksPerSec

\* C8: an export does not change the store; one that succeeds leaves
\* export.txt as the only file that is not a backup, listing the records
\* stored at that moment; and no step of another handler touches export.txt.
C8_ExportOverwrites ==
    [][ LET exporting == pc = "menu" /\ out'.op = "export" IN
        /\ exporting => store' = store
        /\ (exporting /\ out'.status = "ok")
             => /\ DOMAIN files' \ BackupFiles(files') = {EXPORT_FILE_PATH}
                /\ ExportOf(files'[EXPORT_FILE_PATH], store)
        /\ ~exporting
             => /\ EXPORT_FILE_PATH \in DOMAIN files' <=> EXPORT_FILE_PATH \in DOMAIN files
                /\ EXPORT_FILE_PATH \in DOMAIN files
                     => files'[EXPORT_FILE_PATH] = files[EXPORT_FILE_PATH] ]_vars

\* C8 witness: an export has just been written, two records having been added
\* and one of them deleted.
C8_Witness ==
    /\ out.op = "export" /\ out.status = "ok"
    /\ hist.deleted # {} /\ Cardinality(store) = 1
    /\ Len(hist.added) = 2
    /\ files[EXPORT_FILE_PATH].total = 1

\* The documents of S with the longest name.
Longest(S) == {d \in S : \A e \in S : Len(e.name) <= Len(d.name)}

\* C9: the statistics name the earliest-created of the records with the
\* longest name, with that length; "N/A" and 0 when nothing is stored.
C9_LongestNameEarliest ==
    (out.op = "stats" /\ out.status = "ok") =>
        LET st == out.stats[1] IN
        IF store = {}
        THEN st.longestName = NA /\ st.longestNameLength = 0
        ELSE \E d \in Longest(store) :
               /\ \A e \in Longest(store) : d.createdAt <= e.createdAt
               /\ st.longestName = d.name
               /\ st.longestNameLength = Len(d.name)

\* The statistics lines st are all true of the collection S.
StatsOf(st, S) ==
    /\ st.total = Cardinality(S)
    /\ IF S = {}
       THEN /\ st.lastModification = NA /\ st.earliest = NA /\ st.latest = NA
            /\ st.longestName = NA /\ st.longestNameLength = 0
       ELSE /\ \E d \in S : /\ st.lastModification = <<d.updatedAt \div TicksPerSec>>
                            /\ \A e \in S : e.updatedAt <= d.updatedAt
            /\ \E d \in S : /\ st.earliest = <<d.createdAt \div TicksPerSec>>
                            /\ \A e \in S : d.createdAt <= e.createdAt
            /\ \E d \in S : /\ st.latest = <<d.createdAt \div TicksPerSec>>
                            /\ \A e \in S : e.createdAt <= d.createdAt
            /\ \E d \in Longest(S) : /\ st.longestName = d.name
                                     /\ st.longestNameLength = Len(d.name)

\* C10: the statistics printed by one call are all true of one state the
\* store was in during the call, whatever another client wrote meanwhile.
C10_StatsOfOneState ==
    (out.op = "stats" /\ out.status = "ok") =>
        \E S \in hist.seen : StatsOf(out.stats[1], S)

====
